---- MODULE Spec2Model ----
(***************************************************************************)
(* Owner side of the X11 CLIPBOARD selection as implemented by             *)
(* druid-shell/src/platform/x11/clipboard.rs: ClipboardState with its      *)
(* optional ClipboardContents and its list of IncrementalTransfers, the    *)
(* X server state the handlers read and change, and the requests each      *)
(* handler call issues.                                                    *)
(***************************************************************************)
EXTENDS Naturals, Sequences, FiniteSets

\* ------------------------------------------------------------------ bounds
\* Number of window ids the connection hands out in one run.
MaxWindows == 2
\* Largest timestamp the event loop has stored in the shared cell.
MaxTime == 1
\* Number of incremental transfers in flight at once.
MaxTransfers == 2
\* connection.maximum_request_bytes() of the modelled connection.
MaximumRequestBytes == 32

\* ------------------------------------------------------- protocol constants
NONE == 0
ATOM == 4
CLIPBOARD == 69
TARGETS == 70
INCR == 71
PropertyNewValue == 0
PropertyDelete == 1
U16Max == 65535
ChangePropHeaderSize == 24
\* A window of another client: an id this client's connection never hands out.
ForeignWindow == MaxWindows + 1

Min(a, b) == IF a <= b THEN a ELSE b

\* fn maximum_property_length
maximum_property_length == Min(MaximumRequestBytes, U16Max) - ChangePropHeaderSize

\* The server's atom table, as far as the inputs name it.
InternAtom(name) ==
    CASE name = "CLIPBOARD" -> CLIPBOARD
      [] name = "TARGETS" -> TARGETS
      [] name = "INCR" -> INCR
      [] name = "UTF8_STRING" -> 72
      [] name = "text/plain" -> 73
      [] name = "image/png" -> 74
      [] OTHER -> NONE

\* ------------------------------------------------------------------ inputs
\* A payload of n bytes; the seed tells payloads apart.
Bytes(n, seed) == [i \in 1..n |-> (seed + 7 * i) % 256]

Limit == maximum_property_length

Fmt(id, d) == [identifier |-> id, data |-> d]

\* The format lists the application passes to put_formats.
FormatLists ==
    { << >>,
      << Fmt("UTF8_STRING", Bytes(Limit, 2)), Fmt("image/png", Bytes(3 * Limit + 7, 3)) >>,
      << Fmt("text/plain", Bytes(2, 4)), Fmt("text/plain", Bytes(3, 5)),
         Fmt("TARGETS", Bytes(1, 6)) >> }

\* The values the shared timestamp cell holds when put_formats reads it
\* (0 is CurrentTime, the value before any input event).
Timestamps == 0..MaxTime

\* The (window, property) pairs requests name as destination.
Destinations == { << 201, 301 >>, << 202, 302 >> }
TargetAtoms == {TARGETS, 72, 73, 74}
EventWindows == 0..MaxWindows

\* SelectionRequestEvent; selection and time vary with the requestor (requestor
\* 202 asks for the predefined selection atom 1, PRIMARY).
RequestEvents ==
    { [owner |-> o, requestor |-> d[1],
       selection |-> IF d[1] = 201 THEN CLIPBOARD ELSE 1,
       target |-> t, property |-> d[2], time |-> d[1] - 200] :
        o \in 1..MaxWindows, d \in Destinations, t \in TargetAtoms }

\* SelectionClearEvent
ClearEvents == { [owner |-> o] : o \in EventWindows }

\* PropertyNotifyEvent
PropertyEvents ==
    { [window |-> d[1], atom |-> d[2], state |-> s] :
        d \in Destinations \cup { << 201, 302 >> }, s \in {PropertyNewValue, PropertyDelete} }

\* ---------------------------------------------------------------- requests
\* One request sent over the connection.
NoEvent == [requestor |-> NONE, selection |-> NONE, target |-> NONE, property |-> NONE, time |-> 0]
Req(kind, w, p, ty, fmt, d, e) ==
    [req |-> kind, window |-> w, property |-> p, type |-> ty, format |-> fmt, data |-> d, event |-> e]

create_window(w) == Req("create_window", w, NONE, NONE, 0, << >>, NoEvent)
\* A destroy request that names the null window.
destroy_window_of_none(w) == Req("destroy_window", NONE, NONE, NONE, 0, << >>, NoEvent)
destroy_window(w) == Req("destroy_window", w, NONE, NONE, 0, << >>, NoEvent)
set_selection_owner(w, sel, ts) == Req("set_selection_owner", w, sel, NONE, 0, << ts >>, NoEvent)
change_window_attributes(w) == Req("change_window_attributes", w, NONE, NONE, 0, << >>, NoEvent)
change_property8(w, p, ty, d) == Req("change_property", w, p, ty, 8, d, NoEvent)
change_property32(w, p, ty, d) == Req("change_property", w, p, ty, 32, d, NoEvent)
send_event(dest, e) == Req("send_event", dest, NONE, NONE, 0, << >>, e)

\* The requests of `plan` that reach the server when request number `fault`
\* fails with a ConnectionError (fault = 0: none fails).
Failed(plan, fault) == fault \in 1..Len(plan)
\* A handler that goes on sending after a request has failed.
SentDespiteFailure(plan, fault) == plan
Sent(plan, fault) == IF Failed(plan, fault) THEN SubSeq(plan, 1, fault - 1) ELSE plan
\* ------------------------------------------------------------------- state
VARIABLES
    contents,          \* ClipboardState.contents: << >> (None) or << ClipboardContents >>
    incremental,       \* ClipboardState.incremental: sequence of IncrementalTransfer
    nextId,            \* the connection's next free resource id
    alive,             \* server: windows of this client that exist
    destroyed,         \* server: windows of this client that were destroyed
    call,              \* the last call: its name and its argument
    ops,               \* the requests the last call sent, in order
    result,            \* what the last call returned: "Ok" or "Err"
    held,              \* every owner window that was ever stored in contents
    expected,          \* the contents built by the last granted, not yet cleared claim
    cleared,           \* every owner window handle_clear has dropped from contents
    written,           \* per active transfer: the chunks written for it so far
    removed,           \* the transfers removed by the last call other than an ignored
                       \* property notification, each with its chunks
    dropped            \* the atoms of the formats put_formats left out of the held
                       \* contents because interning failed

vars == << contents, incremental, nextId, alive, destroyed, call, ops, result, held,
           expected, cleared, written, removed, dropped >>

program == << contents, incremental >>
server == << alive, destroyed >>

Call(op, arg) == [op |-> op, arg |-> arg]

\* ClipboardState::new
Init ==
    /\ contents = << >>
    /\ incremental = << >>
    /\ nextId = 1
    /\ alive = {}
    /\ destroyed = {}
    /\ call = Call("new", << >>)
    /\ ops = << >>
    /\ result = "Ok"
    /\ held = {}
    /\ expected = << >>
    /\ cleared = {}
    /\ written = << >>
    /\ removed = << >>
    /\ dropped = {}

\* ------------------------------------------------------ ClipboardContents
RECURSIVE ContentsData(_, _, _)
\* formats.iter().filter_map(intern_atom ...).collect(), from format i on;
\* `failing` are the indices of the formats whose atom cannot be interned.
ContentsData(formats, failing, i) ==
    IF i > Len(formats) THEN << >>
    ELSE (IF i \in failing THEN << >>
          ELSE << [atom |-> InternAtom(formats[i].identifier), data |-> formats[i].data] >>)
         \o ContentsData(formats, failing, i + 1)

\* The atoms that formats offer only by entries whose interning failed.
DroppedAtoms(formats, failing) ==
    { InternAtom(formats[i].identifier) : i \in failing }
        \ { InternAtom(formats[i].identifier) : i \in (1..Len(formats)) \ failing }

\* A contents that keeps an entry for every format, interned or not.
NewContentsOfAllFormats(w, ts, formats, failing) ==
    [owner_window |-> w, timestamp |-> ts, data |-> ContentsData(formats, {}, 1)]

\* ClipboardContents::new, once the window exists
NewContents(w, ts, formats, failing) ==
    [owner_window |-> w, timestamp |-> ts, data |-> ContentsData(formats, failing, 1)]

\* The replies get_selection_owner can give after set_selection_owner named
\* window w: w itself, or another owner when the server ignored the claim
\* (its timestamp was stale).
OwnerReplies(w) == {w, ForeignWindow}

\* A put_formats that keeps its contents whatever the server replies.
ConfirmedAlways(owner, w) == TRUE

\* if owner.owner == contents.owner_window
Confirmed(owner, w) == owner = w

\* ClipboardState::put_formats; ts is what server_timestamp.get() returns and
\* owner the reply to get_selection_owner. Steps that can fail: 1 create_window,
\* 2 set_selection_owner, 3 get_selection_owner, 4 destroy_window of the old owner.
PutFormats(formats, ts, owner, failing, fault) ==
    LET w == nextId
        new == NewContents(w, ts, formats, failing)
        replaces == fault \in {0, 4} /\ Confirmed(owner, w)
        hasOld == contents # << >>
        old == contents[1].owner_window
        destroys == fault = 0 /\ replaces /\ hasOld
    IN  /\ nextId <= MaxWindows
        /\ owner \in OwnerReplies(w)
        /\ fault \in 0..(IF Confirmed(owner, w) /\ hasOld THEN 4 ELSE 3)
        /\ nextId' = nextId + 1
        /\ call' = Call("put_formats",
                        [formats |-> formats, window |-> w, timestamp |-> ts, owner |-> owner,
                         failing |-> failing])
        /\ result' = IF fault = 0 THEN "Ok" ELSE "Err"
        /\ alive' = IF fault = 1 THEN alive
                    ELSE IF destroys THEN (alive \cup {w}) \ {old} ELSE alive \cup {w}
        /\ destroyed' = IF destroys THEN destroyed \cup {old} ELSE destroyed
        /\ contents' = IF replaces THEN << new >> ELSE contents
        /\ held' = IF replaces THEN held \cup {w} ELSE held
        /\ expected' = IF fault \in {0, 4} /\ owner = w THEN << new >> ELSE expected
        /\ ops' = (IF fault = 1 THEN << >> ELSE << create_window(w) >>)
                  \o (IF fault \in {1, 2} THEN << >>
                      ELSE << set_selection_owner(w, CLIPBOARD, ts) >>)
                  \o (IF destroys THEN << destroy_window(old) >> ELSE << >>)
        /\ removed' = << >>
        /\ dropped' = IF replaces THEN DroppedAtoms(formats, failing) ELSE dropped
        /\ UNCHANGED << incremental, cleared, written >>

\* A handle_clear that takes every SelectionClear for the loss of the contents held.
LostOwnershipOfAnyWindow(event) == contents # << >>

\* let window = self.contents.as_ref().map(|c| c.owner_window);
\* if Some(event.owner) == window
LostOwnership(event) ==
    LET window == IF contents = << >> THEN << >> ELSE << contents[1].owner_window >>
    IN  << event.owner >> = window

\* A handle_clear that destroys the window but keeps the contents.
ClearedContentsKept(event) == contents

\* What handle_clear leaves in self.contents: self.contents.take() when the
\* event names the owner window.
ClearedContents(event) == IF LostOwnership(event) THEN << >> ELSE contents

\* ClipboardState::handle_clear. The one request that can fail: destroy_window.
HandleClear(event, fault) ==
    LET ours == LostOwnership(event)
        plan == IF ours THEN << destroy_window(event.owner) >> ELSE << >>
        done == ours /\ ~Failed(plan, fault)
    IN  /\ fault \in 0..Len(plan)
        /\ call' = Call("handle_clear", event)
        /\ result' = IF Failed(plan, fault) THEN "Err" ELSE "Ok"
        /\ ops' = Sent(plan, fault)
        /\ contents' = ClearedContents(event)
        /\ cleared' = IF ours THEN cleared \cup {event.owner} ELSE cleared
        /\ alive' = IF done THEN alive \ {event.owner} ELSE alive
        /\ destroyed' = IF done THEN destroyed \cup {event.owner} ELSE destroyed
        /\ expected' = IF expected # << >> /\ expected[1].owner_window = event.owner
                       THEN << >> ELSE expected
        /\ removed' = << >>
        /\ dropped' = IF ours THEN {} ELSE dropped
        /\ UNCHANGED << incremental, nextId, held, written >>
\* ------------------------------------------------------------ handle_request
\* A notification that names the CLIPBOARD atom instead of echoing the selection.
SelectionNotifyClipboard(event, property) ==
    [requestor |-> event.requestor, selection |-> CLIPBOARD, target |-> event.target,
     property |-> property, time |-> event.time]

\* The SelectionNotifyEvent answering `event`, naming `property`.
SelectionNotify(event, property) ==
    [requestor |-> event.requestor, selection |-> event.selection, target |-> event.target,
     property |-> property, time |-> event.time]

\* fn reject_transfer
reject_transfer(event) == << send_event(event.requestor, SelectionNotify(event, NONE)) >>

\* A handle_request that does not compare the event's owner.
IsCurrentOwnerAnyWindow(event) == contents # << >>

\* match &self.contents { Some(contents) if contents.owner_window == event.owner => ... }
IsCurrentOwner(event) == contents # << >> /\ contents[1].owner_window = event.owner

\* contents.data.iter().map(|(atom, _)| *atom).collect(), then push(TARGETS)
TargetsReply(data) == [i \in 1..Len(data) |-> data[i].atom] \o << TARGETS >>

\* contents.data.iter().find(|(atom, _)| *atom == event.target): the index of the
\* first entry for the target, 0 when there is none.
FindTarget(data, target) ==
    LET found == { i \in 1..Len(data) : data[i].atom = target }
    IN  IF found = {} THEN 0 ELSE CHOOSE i \in found : \A j \in found : i <= j

\* A size test that sends a payload of exactly the limit incrementally.
NeedsIncrAtLimit(data) == Len(data) >= maximum_property_length

\* data.len() > maximum_property_length(conn)
NeedsIncr(data) == Len(data) > maximum_property_length

\* An INCR header that announces the size of the first chunk.
IncrLengthOfChunk(data) == Min(Len(data), maximum_property_length)

\* u32::try_from(data.len()).unwrap_or(u32::MAX); u32::MAX is written by its
\* 16-bit halves, 65535 * 2^16 + 65535.
IncrLength(data) ==
    IF Len(data) \div (U16Max + 1) <= U16Max THEN Len(data)
    ELSE U16Max * (U16Max + 1) + U16Max

\* IncrementalTransfer::new, the value it returns
NewTransfer(event, data) ==
    [requestor |-> event.requestor, selection |-> event.selection, target |-> event.target,
     property |-> event.property, time |-> event.time, data |-> data, data_offset |-> 0]

\* What handle_request does with `event`: "reject", "targets", "direct" or "incr".
RequestCase(event) ==
    IF ~IsCurrentOwner(event) THEN "reject"
    ELSE IF event.target = TARGETS THEN "targets"
    ELSE IF FindTarget(contents[1].data, event.target) = 0 THEN "reject"
    ELSE IF NeedsIncr(contents[1].data[FindTarget(contents[1].data, event.target)].data)
         THEN "incr" ELSE "direct"

\* The requests handle_request sends for `event` when none fails.
RequestPlan(event) ==
    LET case == RequestCase(event)
        data == contents[1].data
        entry == data[FindTarget(data, event.target)]
        notify == send_event(event.requestor, SelectionNotify(event, event.property))
    IN  CASE case = "reject" -> reject_transfer(event)
          [] case = "targets" ->
                << change_property32(event.requestor, event.property, ATOM, TargetsReply(data)),
                   notify >>
          [] case = "direct" ->
                << change_property8(event.requestor, event.property, entry.atom, entry.data),
                   notify >>
          [] case = "incr" ->
                << change_window_attributes(event.requestor),
                   change_property32(event.requestor, event.property, INCR,
                                     << IncrLength(entry.data) >>),
                   notify >>

\* ClipboardState::handle_request
HandleRequest(event, fault) ==
    LET case == RequestCase(event)
        plan == RequestPlan(event)
        data == contents[1].data
        entry == data[FindTarget(data, event.target)]
        \* the transfer is pushed once IncrementalTransfer::new has returned Ok
        pushes == case = "incr" /\ fault \notin {1, 2}
    IN  /\ fault \in 0..Len(plan)
        /\ case = "incr" => Len(incremental) < MaxTransfers
        /\ call' = Call("handle_request", event)
        /\ result' = IF Failed(plan, fault) THEN "Err" ELSE "Ok"
        /\ ops' = Sent(plan, fault)
        /\ incremental' = IF pushes THEN Append(incremental, NewTransfer(event, entry.data))
                          ELSE incremental
        /\ written' = IF pushes THEN Append(written, << >>) ELSE written
        /\ removed' = << >>
        /\ UNCHANGED << contents, nextId, server, held, expected, cleared, dropped >>

\* ---------------------------------------------------- handle_property_notify
\* A match on the requestor window alone.
matchesWindow(transfer, event) == transfer.requestor = event.window

\* fn matches
matches(transfer, event) ==
    transfer.requestor = event.window /\ transfer.property = event.atom

\* A transfer that holds no reference of its own and reads the bytes of its
\* target from the contents currently held.
RemainingOfCurrentContents(transfer) ==
    LET d == IF contents = << >> THEN << >> ELSE contents[1].data
        found == { i \in 1..Len(d) : d[i].atom = transfer.target }
        bytes == IF found = {} THEN << >> ELSE d[CHOOSE i \in found : TRUE].data
    IN  SubSeq(bytes, transfer.data_offset + 1, Len(bytes))

\* let remaining = &self.data[self.data_offset..]
Remaining(transfer) == SubSeq(transfer.data, transfer.data_offset + 1, Len(transfer.data))

\* let next_length = remaining.len().min(maximum_property_length(connection))
NextLength(transfer) == Min(Len(Remaining(transfer)), maximum_property_length)

\* &remaining[..next_length]
NextChunk(transfer) == SubSeq(Remaining(transfer), 1, NextLength(transfer))

\* A cursor that moves by the maximum property length whatever was written.
AdvancedByLimit(transfer) ==
    [transfer EXCEPT !.data_offset = transfer.data_offset + maximum_property_length]

\* self.data_offset += next_length
Advanced(transfer) ==
    [transfer EXCEPT !.data_offset = transfer.data_offset + NextLength(transfer)]

\* A transfer that reports completion with the write of its last bytes.
IsFinishedAtEnd(transfer) ==
    transfer.data_offset + NextLength(transfer) = Len(transfer.data)

\* Ok(remaining.is_empty())
IsFinished(transfer) == Remaining(transfer) = << >>

\* A search that takes the oldest transfer whatever the event names.
FindTransferOldest(event) == IF incremental = << >> THEN 0 ELSE 1

\* self.incremental.iter_mut().find(|transfer| matches(transfer, event)): the index
\* of the first matching transfer, 0 when there is none.
FindTransfer(event) ==
    LET found == { i \in 1..Len(incremental) : matches(incremental[i], event) }
    IN  IF found = {} THEN 0 ELSE CHOOSE i \in found : \A j \in found : i <= j

RECURSIVE Retain(_, _, _)
\* The elements of s, from index i on, whose index is in `keep`, in order.
Retain(s, keep, i) ==
    IF i > Len(s) THEN << >>
    ELSE (IF i \in keep THEN << s[i] >> ELSE << >>) \o Retain(s, keep, i + 1)

\* self.incremental.retain(|transfer| !matches(transfer, event)): the indices kept
Retained(seq, event) == { i \in 1..Len(seq) : ~matches(seq[i], event) }

\* A handler that takes every property notification for a deletion.
IsDeletionAnyState(event) == TRUE

\* if event.state != Property::DELETE { return Ok(()); }
IsDeletion(event) == event.state = PropertyDelete

\* ClipboardState::handle_property_notify
HandlePropertyNotify(event, fault) ==
    LET i == FindTransfer(event)
        acts == IsDeletion(event) /\ i # 0
        transfer == incremental[i]
        plan == IF acts
                THEN << change_property8(transfer.requestor, transfer.property,
                                         transfer.target, NextChunk(transfer)) >>
                ELSE << >>
        wrote == acts /\ ~Failed(plan, fault)
        done == wrote /\ IsFinished(transfer)
        advanced == [incremental EXCEPT ![i] = Advanced(transfer)]
        logged == [written EXCEPT ![i] = Append(written[i], plan[1].data)]
        keep == Retained(advanced, event)
        gone == (1..Len(advanced)) \ keep
    IN  /\ fault \in 0..Len(plan)
        /\ call' = Call("handle_property_notify", event)
        /\ result' = IF Failed(plan, fault) THEN "Err" ELSE "Ok"
        /\ ops' = Sent(plan, fault)
        /\ incremental' = IF done THEN Retain(advanced, keep, 1)
                          ELSE IF wrote THEN advanced ELSE incremental
        /\ written' = IF done THEN Retain(logged, keep, 1)
                      ELSE IF wrote THEN logged ELSE written
        /\ removed' = IF done
                      THEN Retain([j \in 1..Len(advanced) |->
                                      [transfer |-> advanced[j], chunks |-> logged[j]]],
                                  gone, 1)
                      ELSE IF acts THEN << >> ELSE removed
        /\ UNCHANGED << contents, nextId, server, held, expected, cleared, dropped >>

\* ----------------------------------------------------------- specification
\* With fault 0 no request of the call fails; with no failing index every atom
\* is interned.

PutFormatsStep ==
    \E formats \in FormatLists, ts \in Timestamps, owner \in OwnerReplies(nextId) :
        PutFormats(formats, ts, owner, {}, 0)
HandleClearStep == \E event \in ClearEvents : HandleClear(event, 0)
HandleRequestStep == \E event \in RequestEvents : HandleRequest(event, 0)
HandlePropertyNotifyStep == \E event \in PropertyEvents : HandlePropertyNotify(event, 0)

Next ==
    \/ PutFormatsStep
    \/ HandleClearStep
    \/ HandleRequestStep
    \/ HandlePropertyNotifyStep

\* Every request reaches the server.
Spec == Init /\ [][Next]_vars

\* The connection may fail while a request or a property notification is
\* handled: any one request of the handler call can return a ConnectionError.
Faults == 0..3

HandleRequestFaulty ==
    \E event \in RequestEvents, fault \in Faults : HandleRequest(event, fault)
HandlePropertyNotifyFaulty ==
    \E event \in PropertyEvents, fault \in Faults : HandlePropertyNotify(event, fault)

NextFaulty ==
    \/ PutFormatsStep
    \/ HandleRequestFaulty
    \/ HandlePropertyNotifyFaulty

SpecFaulty == Init /\ [][NextFaulty]_vars

\* The requestor deletes the destination property after each write, and the
\* event loop hands every resulting PropertyNotifyEvent to the handler: a
\* property-deleted notification that finds a transfer to advance is handled
\* at some time.
DeleteEvents == { e \in PropertyEvents : e.state = PropertyDelete }

DeletionsHandled == \A e \in DeleteEvents : WF_vars(HandlePropertyNotify(e, 0))

\* The runs in which transfers start and go on: the application offers a
\* payload above the limit, requestors ask for it, properties are deleted.
PutFormatsLarge ==
    \E formats \in { f \in FormatLists : \E i \in 1..Len(f) : NeedsIncr(f[i].data) } :
        PutFormats(formats, 0, nextId, {}, 0)
HandleRequestLarge ==
    \E event \in { e \in RequestEvents : e.target = InternAtom("image/png") } :
        HandleRequest(event, 0)
HandlePropertyDelete == \E event \in DeleteEvents : HandlePropertyNotify(event, 0)

NextLive ==
    \/ PutFormatsLarge
    \/ HandleRequestLarge
    \/ HandlePropertyDelete

SpecLive == Init /\ [][NextLive]_vars /\ DeletionsHandled

\* The connection may fail while put_formats or handle_clear runs: any one
\* request of the call can return an error.
PutFormatsFaulty ==
    \E formats \in FormatLists, ts \in Timestamps, owner \in OwnerReplies(nextId) :
        \E fault \in 0..4 : PutFormats(formats, ts, owner, {}, fault)
HandleClearFaulty ==
    \E event \in ClearEvents, fault \in 0..1 : HandleClear(event, fault)

NextWindows ==
    \/ PutFormatsFaulty
    \/ HandleClearFaulty

SpecWindows == Init /\ [][NextWindows]_vars

\* The server may fail to intern the atom of one format of a put_formats call.
InternFailures(formats) == { {} } \cup { {i} : i \in 1..Len(formats) }

PutFormatsInterning ==
    \E formats \in FormatLists, ts \in Timestamps, owner \in OwnerReplies(nextId) :
        \E failing \in InternFailures(formats) : PutFormats(formats, ts, owner, failing, 0)

NextInterning ==
    \/ PutFormatsInterning
    \/ HandleClearStep
    \/ HandleRequestStep

SpecInterning == Init /\ [][NextInterning]_vars
\* ------------------------------------------------------------------ claims
\* The set of the elements of a sequence.
Range(s) == { s[k] : k \in 1..Len(s) }

\* The SelectionNotifyEvent a requestor expects for `event`, naming `property`.
NotifyFor(event, property) ==
    [requestor |-> event.requestor, selection |-> event.selection, target |-> event.target,
     property |-> property, time |-> event.time]

\* C1: the state holds at most one contents; it is the one built by the most
\* recent confirmed put_formats that was not cleared since; and the owner window
\* of every contents held before has been destroyed.
C1_SingleContents ==
    /\ Len(contents) <= 1
    /\ contents = expected
    /\ \A w \in held :
          \/ contents # << >> /\ contents[1].owner_window = w
          \/ w \in destroyed /\ w \notin alive

\* C1: a second confirmed put_formats has replaced the contents of the first.
C1_Witness ==
    /\ call.op = "put_formats"
    /\ call.arg.owner = call.arg.window
    /\ Cardinality(held) = 2
    /\ contents # << >>
    /\ contents[1].owner_window = call.arg.window
    /\ ops[Len(ops)].req = "destroy_window"

\* C2: when the owner reported after the claim is not the new window, the new
\* window is destroyed; no window made by put_formats is alive without being the
\* owner window of the held contents.
C2_UnconfirmedWindowDestroyed ==
    /\ (call.op = "put_formats" /\ result = "Ok" /\ call.arg.owner # call.arg.window)
          => (call.arg.window \in destroyed /\ call.arg.window \notin alive)
    /\ \A w \in alive : contents # << >> /\ contents[1].owner_window = w

\* The cases in which C3 has handle_request reject `event`.
C3_Rejected(event) ==
    \/ contents = << >>
    \/ contents[1].owner_window # event.owner
    \/ /\ event.target # TARGETS
       /\ \A i \in 1..Len(contents[1].data) : contents[1].data[i].atom # event.target

\* C3: a request with no current contents, for another owner window, or for a
\* target that is not offered, is answered by exactly one selection-notify with
\* property none; nothing is written, no transfer starts, contents and the active
\* transfers stay as they are.
C3_RejectionCorrectness ==
    [][ (call'.op = "handle_request" /\ C3_Rejected(call'.arg))
          => /\ ops' = << send_event(call'.arg.requestor, NotifyFor(call'.arg, NONE)) >>
             /\ contents' = contents
             /\ incremental' = incremental ]_vars

\* C3: a TARGETS request naming a window that is not the owner window, while
\* contents are held and a transfer is active, was rejected.
C3_Witness ==
    /\ call.op = "handle_request"
    /\ contents # << >>
    /\ contents[1].owner_window # call.arg.owner
    /\ call.arg.target = TARGETS
    /\ incremental # << >>
    /\ Len(ops) = 1
    /\ ops[1].req = "send_event"
    /\ ops[1].event.property = NONE

\* C4: a TARGETS request to the current owner window writes, as one 32-bit
\* array, the atoms of the contents plus TARGETS, each exactly once.
C4_TargetsDuplicateFree ==
    (/\ call.op = "handle_request"
     /\ result = "Ok"
     /\ contents # << >>
     /\ contents[1].owner_window = call.arg.owner
     /\ call.arg.target = TARGETS)
    => LET reply == ops[1]
           offered == { contents[1].data[i].atom : i \in 1..Len(contents[1].data) }
                      \cup {TARGETS}
       IN  /\ reply.req = "change_property"
           /\ reply.format = 32
           /\ reply.window = call.arg.requestor
           /\ reply.property = call.arg.property
           /\ Range(reply.data) = offered
           /\ Len(reply.data) = Cardinality(offered)

\* The payload the contents offer for the target of `event`: the first entry
\* of that atom.
C5_Payload(event) ==
    LET d == contents[1].data
        i == CHOOSE i \in 1..Len(d) :
                d[i].atom = event.target /\ \A j \in 1..(i - 1) : d[j].atom # event.target
    IN  d[i].data

\* A request to the current owner window for an offered target whose payload
\* is no longer than the maximum property length.
C5_SmallRequest(event) ==
    /\ ~C3_Rejected(event)
    /\ event.target # TARGETS
    /\ Len(C5_Payload(event)) <= Limit

\* C5: such a request is answered by one 8-bit property replace on the
\* destination property, typed by the target and carrying the payload's bytes,
\* followed by one selection-notify naming that property; no transfer starts.
C5_SmallPayloadRoundTrip ==
    [][ (call'.op = "handle_request" /\ C5_SmallRequest(call'.arg))
          => /\ ops' = << change_property8(call'.arg.requestor, call'.arg.property,
                                            call'.arg.target, C5_Payload(call'.arg)),
                          send_event(call'.arg.requestor,
                                     NotifyFor(call'.arg, call'.arg.property)) >>
             /\ incremental' = incremental ]_vars

\* C5: a payload of exactly the maximum property length was written directly.
C5_Witness ==
    /\ call.op = "handle_request"
    /\ Len(ops) = 2
    /\ ops[1].req = "change_property"
    /\ ops[1].format = 8
    /\ Len(ops[1].data) = Limit
    /\ ops[1].data = Bytes(Limit, 2)
    /\ ops[2].req = "send_event"
Ceil(a, b) == (a + b - 1) \div b

RECURSIVE Concat(_)
\* The concatenation of a sequence of sequences.
Concat(chunks) == IF chunks = << >> THEN << >> ELSE Head(chunks) \o Concat(Tail(chunks))

\* No active transfer is addressed by (window, atom).
NoTransferFor(transfers, window, atom) ==
    \A i \in 1..Len(transfers) :
        ~(transfers[i].requestor = window /\ transfers[i].property = atom)

\* C6: when a property-deleted notification completes the transfer it advanced,
\* the writes of that transfer were ceil(L / M) non-empty 8-bit chunks in payload
\* order, each of M bytes but a shorter last one, then one zero-length write;
\* the chunks concatenate to the payload; the transfer is no longer active. For
\* L = 3 M + 7 these are 3 full chunks, one of 7 bytes and the empty one.
C6_IncrementalRoundTrip ==
    (call.op = "handle_property_notify" /\ ops # << >> /\ removed # << >>)
    => LET t == removed[1].transfer
           chunks == removed[1].chunks
           L == Len(t.data)
           n == Ceil(L, Limit)
       IN  /\ L > Limit
           /\ Len(chunks) = n + 1
           /\ \A k \in 1..n :
                 /\ chunks[k] # << >>
                 /\ Len(chunks[k]) = IF k < n THEN Limit ELSE L - (n - 1) * Limit
                 /\ chunks[k] = SubSeq(t.data, (k - 1) * Limit + 1, Min(k * Limit, L))
           /\ chunks[n + 1] = << >>
           /\ Concat(SubSeq(chunks, 1, n)) = t.data
           /\ ops = << change_property8(t.requestor, t.property, t.target, << >>) >>
           /\ NoTransferFor(incremental, t.requestor, t.property)
           /\ L = 3 * Limit + 7 => (n = 4 /\ Len(chunks[4]) = 7)

\* C6: the transfer of the payload of 3 M + 7 bytes has completed.
C6_Witness ==
    /\ call.op = "handle_property_notify"
    /\ ops # << >>
    /\ removed # << >>
    /\ removed[1].transfer.data = Bytes(3 * Limit + 7, 3)
    /\ Len(removed[1].chunks) = 5

\* C7: handle_clear for the current owner window drops the contents and destroys
\* the window; every later request naming a cleared window is rejected; a later
\* confirmed put_formats succeeds and installs the contents it built, on a
\* window of its own.
C7_ClearSemantics ==
    [][ /\ (call'.op = "handle_clear" /\ contents # << >>
              /\ call'.arg.owner = contents[1].owner_window)
            => /\ contents' = << >>
               /\ call'.arg.owner \in destroyed'
               /\ call'.arg.owner \notin alive'
        /\ (call'.op = "handle_request" /\ call'.arg.owner \in cleared)
            => /\ ops' = << send_event(call'.arg.requestor, NotifyFor(call'.arg, NONE)) >>
               /\ incremental' = incremental
        /\ (call'.op = "put_formats" /\ call'.arg.owner = call'.arg.window /\ cleared # {})
            => /\ result' = "Ok"
               /\ Len(contents') = 1
               /\ contents'[1].owner_window = call'.arg.window
               /\ contents'[1].timestamp = call'.arg.timestamp
               /\ Len(contents'[1].data) = Len(call'.arg.formats)
               /\ \A i \in 1..Len(call'.arg.formats) :
                     /\ contents'[1].data[i].atom = InternAtom(call'.arg.formats[i].identifier)
                     /\ contents'[1].data[i].data = call'.arg.formats[i].data
               /\ call'.arg.window \notin cleared
               /\ call'.arg.window \in alive' ]_vars

\* C7: after a clear and a later confirmed put_formats, a request naming the
\* cleared window was rejected.
C7_Witness ==
    /\ call.op = "handle_request"
    /\ call.arg.owner \in cleared
    /\ contents # << >>
    /\ contents[1].data # << >>
    /\ Len(ops) = 1
    /\ ops[1].event.property = NONE

\* The index of the transfer a notification for (window, atom) advances.
FirstTransferFor(transfers, window, atom) ==
    CHOOSE i \in 1..Len(transfers) :
        /\ transfers[i].requestor = window /\ transfers[i].property = atom
        /\ \A j \in 1..(i - 1) :
              ~(transfers[j].requestor = window /\ transfers[j].property = atom)

\* C8: handle_clear and put_formats leave every active transfer in place with
\* its offset; a transfer starts with the payload offered at the request and
\* keeps it; each chunk written for it is the next stretch of that payload.
C8_TransferOutlivesContents ==
    [][ /\ call'.op \in {"handle_clear", "put_formats"} => incremental' = incremental
        /\ (call'.op = "handle_request" /\ Len(incremental') = Len(incremental) + 1)
            => /\ incremental'[Len(incremental')].data = C5_Payload(call'.arg)
               /\ incremental'[Len(incremental')].data_offset = 0
               /\ SubSeq(incremental', 1, Len(incremental)) = incremental
        /\ Len(incremental') = Len(incremental)
            => \A i \in 1..Len(incremental) : incremental'[i].data = incremental[i].data
        /\ (call'.op = "handle_property_notify" /\ ops' # << >>)
            => LET t == incremental[FirstTransferFor(incremental, call'.arg.window,
                                                       call'.arg.atom)]
               IN  ops'[1].data = SubSeq(t.data, t.data_offset + 1,
                                         Min(Len(t.data), t.data_offset + Limit)) ]_vars

\* C8: a transfer has completed with all bytes of its payload although the
\* contents it was started from were cleared in the meantime.
C8_Witness ==
    /\ call.op = "handle_property_notify"
    /\ ops # << >>
    /\ removed # << >>
    /\ contents = << >>
    /\ cleared # {}
    /\ Concat(removed[1].chunks) = Bytes(3 * Limit + 7, 3)

\* C9: a request that returns Ok sends exactly one selection-notify; when the
\* request is not rejected the notify is the last request sent, after the property
\* write on the destination, echoes requestor, selection, target and time and
\* names the destination property.
C9_OneNotifyAfterWrite ==
    (call.op = "handle_request" /\ result = "Ok")
    => LET e == call.arg
           n == Len(ops)
       IN  /\ Cardinality({ k \in 1..n : ops[k].req = "send_event" }) = 1
           /\ ~C3_Rejected(e)
                => /\ n >= 2
                   /\ ops[n] = send_event(e.requestor, NotifyFor(e, e.property))
                   /\ \E k \in 1..(n - 1) :
                         /\ ops[k].req = "change_property"
                         /\ ops[k].window = e.requestor
                         /\ ops[k].property = e.property

\* C9: an INCR start for a request on the PRIMARY selection was notified.
C9_Witness ==
    /\ call.op = "handle_request"
    /\ result = "Ok"
    /\ call.arg.selection # CLIPBOARD
    /\ Len(ops) = 3
    /\ ops[1].req = "change_window_attributes"
    /\ ops[2].type = INCR
    /\ ops[3].event.property = call.arg.property

\* C10: a property-deleted notification whose (window, atom) matches no active
\* transfer returns Ok, sends nothing and leaves contents and transfers alone.
C10_UnmatchedNotifyIsNoOp ==
    [][ (/\ call'.op = "handle_property_notify"
         /\ call'.arg.state = PropertyDelete
         /\ NoTransferFor(incremental, call'.arg.window, call'.arg.atom))
          => /\ result' = "Ok"
             /\ ops' = << >>
             /\ contents' = contents
             /\ incremental' = incremental ]_vars

\* C10: the transfer for (window, atom) was completed and removed, and the next
\* property-deleted notification for the same pair was ignored.
C10_Witness ==
    /\ call.op = "handle_property_notify"
    /\ call.arg.state = PropertyDelete
    /\ ops = << >>
    /\ result = "Ok"
    /\ removed # << >>
    /\ removed[1].transfer.requestor = call.arg.window
    /\ removed[1].transfer.property = call.arg.atom
    /\ NoTransferFor(incremental, call.arg.window, call.arg.atom)

\* The indices of the formats that were interned, in the order given.
C11_Interned(formats, failing) ==
    Retain([i \in 1..Len(formats) |-> i], (1..Len(formats)) \ failing, 1)

\* C11: a put_formats in which the atom of one format cannot be interned returns
\* Ok and claims the selection as usual; confirmed, it holds one (atom, data)
\* entry for each interned format, in the order given. An atom offered only by
\* the dropped format is afterwards not in the TARGETS reply, and a request for
\* it is rejected (TARGETS itself apart, which every reply lists).
C11_InternFailureOmitsFormat ==
    [][ /\ call'.op = "put_formats"
            => LET a == call'.arg
                   interned == C11_Interned(a.formats, a.failing)
               IN  /\ result' = "Ok"
                   /\ SubSeq(ops', 1, 2)
                        = << create_window(a.window),
                             set_selection_owner(a.window, CLIPBOARD, a.timestamp) >>
                   /\ a.owner = a.window
                        => /\ Len(contents') = 1
                           /\ contents'[1].owner_window = a.window
                           /\ Len(contents'[1].data) = Len(a.formats) - Cardinality(a.failing)
                           /\ \A k \in 1..Len(interned) :
                                 contents'[1].data[k]
                                   = [atom |-> InternAtom(a.formats[interned[k]].identifier),
                                      data |-> a.formats[interned[k]].data]
        /\ (/\ call'.op = "handle_request"
            /\ contents # << >>
            /\ contents[1].owner_window = call'.arg.owner)
            => /\ call'.arg.target = TARGETS
                  => \A atom \in dropped \ {TARGETS} : atom \notin Range(ops'[1].data)
               /\ call'.arg.target \in dropped \ {TARGETS}
                  => /\ ops' = << send_event(call'.arg.requestor, NotifyFor(call'.arg, NONE)) >>
                     /\ incremental' = incremental ]_vars

\* C11: the held contents were built with one format dropped and still offer
\* another one; a request to the owner window for the dropped format's atom was
\* rejected.
C11_Witness ==
    /\ call.op = "handle_request"
    /\ contents # << >>
    /\ contents[1].owner_window = call.arg.owner
    /\ contents[1].data # << >>
    /\ call.arg.target \in dropped \ {TARGETS}
    /\ ops = << send_event(call.arg.requestor, NotifyFor(call.arg, NONE)) >>

\* C12: every transfer that was removed from the active set had its offset at
\* the length of its data and its own zero-length chunk written last, also when
\* it shared its (requestor, property) with another active transfer.
C12_RemovedOnlyWhenFinished ==
    \A k \in 1..Len(removed) :
        LET t == removed[k].transfer
            chunks == removed[k].chunks
        IN  /\ t.data_offset = Len(t.data)
            /\ chunks # << >>
            /\ chunks[Len(chunks)] = << >>
            /\ Concat(chunks) = t.data

\* C13: a property notification whose state is not "deleted" returns Ok, writes
\* nothing, advances no offset and removes no transfer, also when its
\* (window, atom) names an active transfer.
C13_OnlyDeletionsAdvance ==
    [][ (call'.op = "handle_property_notify" /\ call'.arg.state # PropertyDelete)
          => /\ result' = "Ok"
             /\ ops' = << >>
             /\ incremental' = incremental
             /\ contents' = contents ]_vars

\* C13: a new-value notification for the (window, atom) of a transfer that has
\* had its first chunk written was ignored.
C13_Witness ==
    /\ call.op = "handle_property_notify"
    /\ call.arg.state = PropertyNewValue
    /\ ops = << >>
    /\ \E i \in 1..Len(incremental) :
          /\ incremental[i].requestor = call.arg.window
          /\ incremental[i].property = call.arg.atom
          /\ incremental[i].data_offset = Limit
          /\ written[i] # << >>

\* A request to the current owner window for an offered target whose payload
\* is longer than the maximum property length.
C14_LargeRequest(event) ==
    /\ ~C3_Rejected(event)
    /\ event.target # TARGETS
    /\ Len(C5_Payload(event)) > Limit

\* The requests of an INCR start for `event`, in the order C14 gives them.
C14_Start(event) ==
    << change_window_attributes(event.requestor),
       change_property32(event.requestor, event.property, INCR,
                         << Len(C5_Payload(event)) >>),
       send_event(event.requestor, NotifyFor(event, event.property)) >>

\* C14: an INCR start sends, in this order, the subscription on the requestor
\* window, one 32-bit write typed INCR carrying the payload length, and the
\* selection-notify; a failing request ends the call after the requests before
\* it; the transfer is inserted, with offset 0, exactly when the first two were
\* sent, so before the notify; the call writes no 8-bit chunk; and an offset
\* leaves 0 only in a property-deleted notification for the transfer's pair.
C14_IncrStartOrder ==
    [][ /\ (call'.op = "handle_request" /\ C14_LargeRequest(call'.arg))
            => LET e == call'.arg
                   n == Len(ops')
               IN  /\ n <= 3
                   /\ ops' = SubSeq(C14_Start(e), 1, n)
                   /\ result' = "Ok" <=> n = 3
                   /\ \A k \in 1..n : ops'[k].format # 8
                   /\ incremental' =
                        IF n >= 2
                        THEN Append(incremental,
                                    [requestor |-> e.requestor, selection |-> e.selection,
                                     target |-> e.target, property |-> e.property,
                                     time |-> e.time, data |-> C5_Payload(e),
                                     data_offset |-> 0])
                        ELSE incremental
        /\ \A i \in 1..Len(incremental) :
              (/\ incremental[i].data_offset = 0
               /\ i <= Len(incremental')
               /\ incremental'[i].data_offset # 0)
              => /\ call'.op = "handle_property_notify"
                 /\ call'.arg.state = PropertyDelete
                 /\ call'.arg.window = incremental[i].requestor
                 /\ call'.arg.atom = incremental[i].property ]_vars

\* C14: the selection-notify of an INCR start failed: the subscription and the
\* INCR header were sent and the transfer is in the active set with offset 0.
C14_Witness ==
    /\ call.op = "handle_request"
    /\ result = "Err"
    /\ Len(ops) = 2
    /\ ops[1].req = "change_window_attributes"
    /\ ops[2].type = INCR
    /\ ops[2].format = 32
    /\ ops[2].data = << 3 * Limit + 7 >>
    /\ incremental # << >>
    /\ incremental[Len(incremental)].data_offset = 0
    /\ incremental[Len(incremental)].requestor = call.arg.requestor

\* C15: when the chunk write fails, handle_property_notify returns an error
\* with nothing sent, and the transfers keep their place and their offsets; when
\* the subscription or the INCR header write of an INCR start fails,
\* handle_request returns an error, inserts no transfer and sends no
\* selection-notify; a failed request is not sent again.
C15_WriteFailureSurfaces ==
    [][ /\ (call'.op = "handle_property_notify" /\ result' = "Err")
            => /\ ops' = << >>
               /\ incremental' = incremental
               /\ contents' = contents
        /\ (/\ call'.op = "handle_request"
            /\ C14_LargeRequest(call'.arg)
            /\ Len(ops') < 2)
            => /\ result' = "Err"
               /\ incremental' = incremental
               /\ ops' = SubSeq(<< change_window_attributes(call'.arg.requestor) >>,
                                1, Len(ops')) ]_vars

\* C15: the write of the second chunk of a transfer failed; the transfer is
\* still active, with the offset it had after its first chunk.
C15_Witness ==
    /\ call.op = "handle_property_notify"
    /\ call.arg.state = PropertyDelete
    /\ result = "Err"
    /\ ops = << >>
    /\ \E i \in 1..Len(incremental) :
          /\ incremental[i].requestor = call.arg.window
          /\ incremental[i].property = call.arg.atom
          /\ incremental[i].data_offset = Limit
          /\ Len(written[i]) = 1

\* C16: handle_clear for a window that is not the owner window of the contents
\* held returns Ok, sends nothing and changes neither the contents, the transfers
\* nor the windows; every request is answered after it as it would have been
\* before, so requests to the owner window are still served. This covers the
\* SelectionClear for a window that a later confirmed put_formats has replaced.
C16_StaleClearIsNoOp ==
    [][ (/\ call'.op = "handle_clear"
         /\ contents = << >> \/ contents[1].owner_window # call'.arg.owner)
          => /\ result' = "Ok"
             /\ ops' = << >>
             /\ contents' = contents
             /\ incremental' = incremental
             /\ alive' = alive
             /\ destroyed' = destroyed
             /\ \A e \in RequestEvents :
                   /\ RequestCase(e)' = RequestCase(e)
                   /\ RequestPlan(e)' = RequestPlan(e) ]_vars

\* C16: a SelectionClear for the window a confirmed put_formats had replaced and
\* destroyed was handled; the new contents are held, offer a format, and their
\* window is alive.
C16_Witness ==
    /\ call.op = "handle_clear"
    /\ call.arg.owner \in destroyed
    /\ call.arg.owner \in held
    /\ call.arg.owner \notin cleared
    /\ ops = << >>
    /\ contents # << >>
    /\ contents[1].owner_window # call.arg.owner
    /\ contents[1].owner_window \in alive
    /\ \E e \in RequestEvents :
          e.owner = contents[1].owner_window /\ RequestCase(e) = "direct"

\* A transfer for (window, atom) is active.
C17_Active(d) == ~NoTransferFor(incremental, d[1], d[2])

\* The removed transfer has had all its bytes and then its zero-length chunk
\* written.
C17_Completed(r) ==
    /\ r.chunks # << >>
    /\ r.chunks[Len(r.chunks)] = << >>
    /\ Concat(r.chunks) = r.transfer.data

\* When every property-deleted notification is handled and no write fails, a
\* destination with an active transfer is later without one, and from some time
\* on the active set is empty once no more requests arrive.
C17_DestinationsDrain ==
    /\ \A d \in Destinations : C17_Active(d) ~> ~C17_Active(d)
    /\ <>[][call'.op # "handle_request"]_vars => <>[](incremental = << >>)

\* C17: when every property-deleted notification is handled and no write fails,
\* every transfer that enters the active set leaves it, the set is empty once
\* requests have stopped, and a transfer leaves the set only with its
\* terminating zero-length chunk written.
C17_EveryTransferCompletes ==
    /\ C17_DestinationsDrain
    /\ [](\A k \in 1..Len(removed) : C17_Completed(removed[k]))

\* C18: the offset of every active transfer lies between 0 and the length of
\* its data; no step lowers the offset of a transfer that stays active; and
\* the chunk a property-deleted notification writes for a transfer has
\* min(remaining bytes, maximum property length) bytes, starts at the offset
\* where the chunks written before it for that transfer ended, and moves the
\* offset to its own end.
C18_OffsetBoundsAndChunks ==
    [][ /\ \A i \in 1..Len(incremental') :
              /\ incremental'[i].data_offset >= 0
              /\ incremental'[i].data_offset <= Len(incremental'[i].data)
        /\ Len(incremental') >= Len(incremental)
            => \A i \in 1..Len(incremental) :
                  incremental'[i].data_offset >= incremental[i].data_offset
        /\ Len(incremental') < Len(incremental)
            => \A j \in 1..Len(incremental') :
                  \E i \in j..Len(incremental) :
                      /\ incremental'[j].data = incremental[i].data
                      /\ incremental'[j].requestor = incremental[i].requestor
                      /\ incremental'[j].property = incremental[i].property
                      /\ incremental'[j].data_offset >= incremental[i].data_offset
        /\ (call'.op = "handle_property_notify" /\ ops' # << >>)
            => LET i == FirstTransferFor(incremental, call'.arg.window, call'.arg.atom)
                   t == incremental[i]
                   chunk == ops'[1].data
               IN  /\ Len(ops') = 1
                   /\ ops'[1].format = 8
                   /\ Len(chunk) = Min(Len(t.data) - t.data_offset, Limit)
                   /\ t.data_offset = Len(Concat(written[i]))
                   /\ chunk = SubSeq(t.data, t.data_offset + 1, t.data_offset + Len(chunk))
                   /\ Len(incremental') = Len(incremental)
                        => incremental'[i].data_offset = t.data_offset + Len(chunk) ]_vars

\* C18: the last bytes of a payload of 3 M + 7 bytes were written as a chunk of
\* 7 bytes; the transfer is active with its offset at the length of its data.
C18_Witness ==
    /\ call.op = "handle_property_notify"
    /\ Len(ops) = 1
    /\ Len(ops[1].data) = 7
    /\ \E i \in 1..Len(incremental) :
          /\ incremental[i].requestor = call.arg.window
          /\ incremental[i].property = call.arg.atom
          /\ incremental[i].data_offset = Len(incremental[i].data)
          /\ incremental[i].data_offset = 3 * Limit + 7
          /\ Len(written[i]) = 4

\* The transfers whose (requestor, property) is not (window, atom), in order.
C19_Others(transfers, window, atom) ==
    Retain(transfers,
           { i \in 1..Len(transfers) :
               ~(transfers[i].requestor = window /\ transfers[i].property = atom) },
           1)

\* C19: a property-deleted notification sends at most one request, an 8-bit
\* write on its own (window, atom); the transfers of every other destination
\* stay in the active set, in order, each with its offset; at most one offset
\* changes; the contents stay as they are.
C19_TransfersIndependent ==
    [][ (call'.op = "handle_property_notify" /\ call'.arg.state = PropertyDelete)
          => LET e == call'.arg
             IN  /\ Len(ops') <= 1
                 /\ \A k \in 1..Len(ops') :
                       /\ ops'[k].req = "change_property"
                       /\ ops'[k].format = 8
                       /\ ops'[k].window = e.window
                       /\ ops'[k].property = e.atom
                 /\ C19_Others(incremental', e.window, e.atom)
                      = C19_Others(incremental, e.window, e.atom)
                 /\ Len(incremental') = Len(incremental)
                      => Cardinality({ i \in 1..Len(incremental) :
                                         incremental'[i] # incremental[i] }) <= 1
                 /\ contents' = contents ]_vars

\* C19: two transfers with different destinations are active, the first two
\* chunks ahead and the second one chunk; the last notification wrote a chunk
\* for one of them.
C19_Witness ==
    /\ call.op = "handle_property_notify"
    /\ Len(ops) = 1
    /\ Len(incremental) = 2
    /\ incremental[1].requestor # incremental[2].requestor
    /\ incremental[1].property # incremental[2].property
    /\ incremental[1].data_offset = 2 * Limit
    /\ incremental[2].data_offset = Limit
    /\ call.arg.window = incremental[2].requestor

\* C20: the owner window of the contents held is not the null window, exists
\* and was not destroyed; a call sends at most one destroy-window request, and
\* each one names a window that is not null, exists and was not destroyed
\* before.
C20_OwnerWindowLifetime ==
    [][ /\ contents' # << >>
            => /\ contents'[1].owner_window # NONE
               /\ contents'[1].owner_window \in alive'
               /\ contents'[1].owner_window \notin destroyed'
        /\ Cardinality({ k \in 1..Len(ops') : ops'[k].req = "destroy_window" }) <= 1
        /\ \A k \in 1..Len(ops') :
              ops'[k].req = "destroy_window"
              => /\ ops'[k].window # NONE
                 /\ ops'[k].window \in alive
                 /\ ops'[k].window \notin destroyed
                 /\ ops'[k].window \in destroyed'
        /\ destroyed \subseteq destroyed' ]_vars

\* C20: the first owner window was destroyed by the put_formats that replaced
\* its contents, the second by the handle_clear that named it.
C20_Witness ==
    /\ call.op = "handle_clear"
    /\ ops = << destroy_window(2) >>
    /\ destroyed = {1, 2}
    /\ held = {1, 2}
    /\ contents = << >>
====
